---- MODULE Spec2Model ----
(***************************************************************************)
(* Model of data/data_download.py of ToTheMoon: the command-line driver    *)
(* that downloads 1-minute klines per trading pair, computes RSI and       *)
(* Bollinger Bands over the close prices and writes <pair>.csv.            *)
(*                                                                         *)
(* Two specifications:                                                     *)
(*   Spec     the driver (__main__, download_data, clean_dataset) with the *)
(*            exchange and the file system as the environment;             *)
(*   SpecInd  the indicator functions set_RSI and set_BB applied to        *)
(*            bounded close-price series.                                  *)
(*                                                                         *)
(* Numbers: pandas columns are IEEE doubles.  A double is modelled as an   *)
(* exact rational or one of the special values NaN, +inf, -inf, with the   *)
(* IEEE rules for the special values (x/0, 0/0, inf arithmetic, NaN        *)
(* propagation and NaN comparisons); rounding is not modelled, except that *)
(* the square root is rounded down to a multiple of 1/SqrtScale.  pandas   *)
(* uses NaN as its missing-value marker.                                   *)
(***************************************************************************)
EXTENDS Integers, Sequences, FiniteSets, TLC

(***************************************************************************)
(* Bounds of the model                                                     *)
(***************************************************************************)
\* longest pair list given on the command line
MaxPairs == 2
\* longest exhaustively enumerated close-price series
MaxLen == 4
\* highest price of the exhaustively enumerated series
MaxPrice == 3
\* largest rolling window tried besides the program's 14 and 21
MaxPeriod == 3
\* longest generated (piecewise linear) close-price series
MaxRows == 23
\* resolution of the modelled square root
SqrtScale == 100

(***************************************************************************)
(* Program constants                                                       *)
(***************************************************************************)
\* period = 14 in feature_engineering
RSI_PERIOD == 14
\* per = 21 in feature_engineering
BB_PERIOD == 21
\* close_idx = 4 and unix_idx = 0 in fill_with_latest_data (0-based)
close_idx == 4
unix_idx == 0
show_graph == FALSE

(***************************************************************************)
(* Doubles                                                                 *)
(***************************************************************************)
Abs(n) == IF n < 0 THEN -n ELSE n
Sgn(n) == IF n < 0 THEN -1 ELSE IF n > 0 THEN 1 ELSE 0

RECURSIVE GCD(_, _)
GCD(a, b) == IF b = 0 THEN a ELSE GCD(b, a % b)

NaN == [k |-> "nan", n |-> 0, d |-> 1]
Inf(s) == [k |-> "inf", n |-> s, d |-> 1]
\* the rational n/d (d # 0), in lowest terms with a positive denominator
F(n, d) ==
    LET g == GCD(Abs(n), Abs(d))
        s == IF d < 0 THEN -1 ELSE 1
    IN  [k |-> "fin", n |-> (s * n) \div g, d |-> Abs(d) \div g]
Zero == F(0, 1)
Hundred == F(100, 1)

IsNaN(x) == x.k = "nan"
IsFin(x) == x.k = "fin"
IsInf(x) == x.k = "inf"

FNeg(x) == IF IsNaN(x) THEN NaN ELSE [x EXCEPT !.n = -x.n]
FAbs(x) == IF IsNaN(x) THEN NaN ELSE [x EXCEPT !.n = Abs(x.n)]

FAdd(a, b) ==
    IF IsNaN(a) \/ IsNaN(b) THEN NaN
    ELSE IF IsInf(a) THEN (IF IsInf(b) /\ b.n # a.n THEN NaN ELSE a)
    ELSE IF IsInf(b) THEN b
    ELSE LET l == (a.d \div GCD(a.d, b.d)) * b.d
         IN  F(a.n * (l \div a.d) + b.n * (l \div b.d), l)

FSub(a, b) == FAdd(a, FNeg(b))

FMul(a, b) ==
    IF IsNaN(a) \/ IsNaN(b) THEN NaN
    ELSE IF IsInf(a) \/ IsInf(b)
         THEN (IF Sgn(a.n) * Sgn(b.n) = 0 THEN NaN ELSE Inf(Sgn(a.n) * Sgn(b.n)))
    ELSE F(a.n * b.n, a.d * b.d)

\* IEEE division: x/0 is an infinity for x # 0 and NaN for x = 0; nothing raises
FDiv(a, b) ==
    IF IsNaN(a) \/ IsNaN(b) THEN NaN
    ELSE IF IsInf(a) THEN (IF IsInf(b) THEN NaN
                           ELSE Inf(a.n * (IF b.n < 0 THEN -1 ELSE 1)))
    ELSE IF IsInf(b) THEN Zero
    ELSE IF b.n = 0 THEN (IF a.n = 0 THEN NaN ELSE Inf(Sgn(a.n)))
    ELSE F(a.n * b.d, a.d * b.n)

\* comparisons; every comparison with NaN is false
FLt(a, b) ==
    /\ ~IsNaN(a) /\ ~IsNaN(b)
    /\ IF IsInf(a) THEN a.n = -1 /\ ~(IsInf(b) /\ b.n = -1)
       ELSE IF IsInf(b) THEN b.n = 1
       ELSE a.n * b.d < b.n * a.d
FLe(a, b) == ~IsNaN(a) /\ ~IsNaN(b) /\ ~FLt(b, a)

RECURSIVE ISqrtFrom(_, _)
ISqrtFrom(x, r) == IF (r + 1) * (r + 1) > x THEN r ELSE ISqrtFrom(x, r + 1)
RECURSIVE ISqrt(_)
\* floor of the square root of the natural number x
ISqrt(x) == IF x < 4 THEN ISqrtFrom(x, 0)
            ELSE LET h == 2 * ISqrt(x \div 4)
                 IN  IF (h + 1) * (h + 1) > x THEN h ELSE h + 1

FSqrt(a) ==
    IF IsNaN(a) THEN NaN
    ELSE IF IsInf(a) THEN (IF a.n = 1 THEN a ELSE NaN)
    ELSE IF a.n < 0 THEN NaN
    ELSE F(ISqrt((a.n \div a.d) * SqrtScale * SqrtScale
                 + ((a.n % a.d) * SqrtScale * SqrtScale) \div a.d), SqrtScale)

(***************************************************************************)
(* pandas column operations.  A column is a function 1..n -> double; row i *)
(* of the model is row i-1 of the 0-based DataFrame.                       *)
(***************************************************************************)
\* the same sequence, with its elements evaluated once
Eval(col) == col \o <<>>

Col(ds, name) == Eval([i \in 1..Len(ds) |-> ds[i][name]])

\* Series.diff(): the first entry is missing
diff(col) ==
    Eval([i \in DOMAIN col |-> IF i = 1 THEN NaN ELSE FSub(col[i], col[i - 1])])

RECURSIVE SumRange(_, _, _)
SumRange(col, lo, hi) ==
    IF lo > hi THEN Zero ELSE FAdd(col[lo], SumRange(col, lo + 1, hi))

\* the window of `period` rows ending at row i is complete and has no NaN
\* (rolling(window=period) has min_periods = period)
WindowFull(col, i, period) ==
    /\ i >= period
    /\ \A j \in (i - period + 1)..i : ~IsNaN(col[j])

\* Series.rolling(window=period).mean()
rolling_mean(col, period) ==
    Eval([i \in DOMAIN col |->
        IF WindowFull(col, i, period)
        THEN FDiv(SumRange(col, i - period + 1, i), F(period, 1))
        ELSE NaN])

\* Series.rolling(window=period).std(): sample standard deviation (ddof = 1),
\* missing when the window has no more than ddof observations
rolling_std(col, period) ==
    Eval([i \in DOMAIN col |->
        IF WindowFull(col, i, period) /\ period > 1
        THEN LET m  == FDiv(SumRange(col, i - period + 1, i), F(period, 1))
                 sq == Eval([j \in DOMAIN col |->
                              IF j \in (i - period + 1)..i
                              THEN FMul(FSub(col[j], m), FSub(col[j], m))
                              ELSE Zero])
             IN  FSqrt(FDiv(SumRange(sq, i - period + 1, i), F(period - 1, 1)))
        ELSE NaN])

(***************************************************************************)
(* Indicator engine                                                        *)
(***************************************************************************)
\* Up = Diff with the negative entries set to 0 (a NaN entry stays NaN)
UpCol(Diff) ==
    Eval([i \in DOMAIN Diff |-> IF FLt(Diff[i], Zero) THEN Zero ELSE Diff[i]])

\* Down = abs(Diff with the positive entries set to 0)
DownCol(Diff) ==
    Eval([i \in DOMAIN Diff |-> FAbs(IF FLt(Zero, Diff[i]) THEN Zero ELSE Diff[i])])

\* RS = avg_up / avg_down, elementwise
RSCol(avg_up, avg_down) ==
    Eval([i \in DOMAIN avg_up |-> FDiv(avg_up[i], avg_down[i])])

\* RSI = 100 - (100 / (1 + RS)), elementwise
RSICol(RS) ==
    Eval([i \in DOMAIN RS |-> FSub(Hundred, FDiv(Hundred, FAdd(F(1, 1), RS[i])))])

\* set_RSI: adds the columns Diff, Up, Down, avg_up, avg_down, RS, RSI
set_RSI(new_dataset, period) ==
    LET Diff     == diff(Col(new_dataset, "close"))
        Up       == UpCol(Diff)
        Down     == DownCol(Diff)
        avg_up   == rolling_mean(Up, period)
        avg_down == rolling_mean(Down, period)
        RS       == RSCol(avg_up, avg_down)
        RSI      == RSICol(RS)
    IN  Eval([i \in 1..Len(new_dataset) |->
            [Diff |-> Diff[i], Up |-> Up[i], Down |-> Down[i],
             avg_up |-> avg_up[i], avg_down |-> avg_down[i],
             RS |-> RS[i], RSI |-> RSI[i]] @@ new_dataset[i]])

\* the band on the wrong side of the mean
band_swapped(ma, sd, sign) == FAdd(ma, FMul(F(-2 * sign, 1), sd))

\* '20MA' + 2*SD (sign = 1) and '20MA' - 2*SD (sign = -1)
band(ma, sd, sign) == FAdd(ma, FMul(F(2 * sign, 1), sd))

\* set_BB: adds the columns 20MA, SD, upperband, lowerband
set_BB(new_dataset, period) ==
    LET close == Col(new_dataset, "close")
        MA    == rolling_mean(close, period)
        SD    == rolling_std(close, period)
    IN  Eval([i \in 1..Len(new_dataset) |->
            [MA20 |-> MA[i], SD |-> SD[i],
             upperband |-> band(MA[i], SD[i], 1),
             lowerband |-> band(MA[i], SD[i], -1)] @@ new_dataset[i]])

\* new_dataset[["unix", "RSI", "lowerband", "upperband", "close"]]
Project(r) ==
    [unix |-> r.unix, RSI |-> r.RSI, lowerband |-> r.lowerband,
     upperband |-> r.upperband, close |-> r.close]

\* DataFrame['close'] of a frame that never got a row raises KeyError: the
\* frame starts as pd.DataFrame() and gets its columns from the appended rows
feature_engineering_raises(dataset) == Len(dataset) = 0

feature_engineering(dataset) ==
    LET new_dataset == set_BB(set_RSI(dataset, RSI_PERIOD), BB_PERIOD)
    IN  Eval([i \in 1..Len(dataset) |-> Project(new_dataset[i])])

(***************************************************************************)
(* Strings are sequences of one-character strings.                         *)
(***************************************************************************)
DigitChars == <<"0", "1", "2", "3", "4", "5", "6", "7", "8", "9">>
IsDigit(c) == \E v \in 1..10 : DigitChars[v] = c
DigitVal(c) == (CHOOSE v \in 1..10 : DigitChars[v] = c) - 1

\* str(n) for 0 <= n < 100
Dec(n) == IF n < 10 THEN <<DigitChars[n + 1]>>
          ELSE <<DigitChars[(n \div 10) + 1], DigitChars[(n % 10) + 1]>>

RECURSIVE DecVal(_)
DecVal(s) == IF Len(s) = 0 THEN 0
             ELSE 10 * DecVal(SubSeq(s, 1, Len(s) - 1)) + DigitVal(s[Len(s)])

RECURSIVE Pow10(_)
Pow10(k) == IF k = 0 THEN 1 ELSE 10 * Pow10(k - 1)

\* s.index("."): the first position of a dot, 0 when there is none
RECURSIVE IndexOfDot(_, _)
IndexOfDot(s, i) == IF i > Len(s) THEN 0
                    ELSE IF s[i] = "." THEN i ELSE IndexOfDot(s, i + 1)

\* float(s) for the decimal forms digits, digits.digits, digits. and .digits;
\* any other text raises ValueError (signs, exponents, "nan" and "inf" do not
\* occur in the bodies enumerated here)
py_float(s) ==
    LET dot  == IndexOfDot(s, 1)
        int  == IF dot = 0 THEN s ELSE SubSeq(s, 1, dot - 1)
        frac == IF dot = 0 THEN <<>> ELSE SubSeq(s, dot + 1, Len(s))
        all  == int \o frac
    IN  IF Len(all) > 0 /\ \A i \in 1..Len(all) : IsDigit(all[i])
        THEN [exc |-> "none", v |-> F(DecVal(all), Pow10(Len(frac)))]
        ELSE [exc |-> "ValueError", v |-> NaN]

extension == <<".", "c", "s", "v">>

\* fname[:fname.index(".")]
remove_extension(fname) == SubSeq(fname, 1, IndexOfDot(fname, 1) - 1)

\* [item for sublist in list for item in sublist]
RECURSIVE flatten(_)
flatten(list) == IF list = <<>> THEN <<>> ELSE Head(list) \o flatten(Tail(list))

\* time_dict of download_data
time_dict == [hour |-> "1h", min |-> "minute", day |-> "d"]

(***************************************************************************)
(* The exchange's answers.  A body is what json.loads makes of             *)
(* response.text: not JSON at all, a scalar, an object (iterating it gives *)
(* its keys) or an array (iterating it gives its elements).                *)
(***************************************************************************)
NoResponse == [json |-> "none", items |-> <<>>]
NotJson == [json |-> "invalid", items |-> <<>>]
Scalar == [json |-> "scalar", items |-> <<>>]
\* {"code": -1121, "msg": "Invalid symbol."}
ErrorObject == [json |-> "object",
                items |-> << <<"c", "o", "d", "e">>, <<"m", "s", "g">> >>]
\* an object whose key has a digit at index 4
DigitKeyObject == [json |-> "object", items |-> << <<"r", "a", "t", "e", "7">> >>]
EmptyArray == [json |-> "array", items |-> <<>>]

\* a kline: [open time, open, high, low, close, volume]
Kline(t, c) == <<Dec(t), Dec(c), Dec(c), Dec(c), Dec(c), <<"1", ".", "5">> >>
Klines(cs) ==
    [json |-> "array", items |-> Eval([i \in 1..Len(cs) |-> Kline(i, cs[i])])]
\* an element with fewer than five fields
ShortRecordArray == [json |-> "array", items |-> << <<Dec(1), Dec(2)>> >>]
\* an element whose close is not a number
BadCloseArray ==
    [json |-> "array", items |-> << <<Dec(1), Dec(2), Dec(2), Dec(2), <<"x">> >> >>]

GoodBodies == {Klines(<<2, 1>>), Klines([i \in 1..(RSI_PERIOD + 1) |-> i])}
Bodies == {NotJson, Scalar, ErrorObject, DigitKeyObject, EmptyArray,
           ShortRecordArray, BadCloseArray} \cup GoodBodies

\* record[i0] with the 0-based index i0: an element of a list, a character of
\* a key
Subscript(body, record, i0) ==
    IF i0 + 1 > Len(record) THEN [exc |-> "IndexError", v |-> <<>>]
    ELSE [exc |-> "none",
          v |-> IF body.json = "object" THEN <<record[i0 + 1]>> ELSE record[i0 + 1]]

\* row = {"unix": record[unix_idx], "close": float(record[close_idx])}
MakeRow(body, record) ==
    LET u == Subscript(body, record, unix_idx)
        c == Subscript(body, record, close_idx)
        f == py_float(c.v)
    IN  IF u.exc # "none" THEN [exc |-> u.exc, row |-> <<>>]
        ELSE IF c.exc # "none" THEN [exc |-> c.exc, row |-> <<>>]
        ELSE IF f.exc # "none" THEN [exc |-> f.exc, row |-> <<>>]
        ELSE [exc |-> "none", row |-> [unix |-> u.v, close |-> f.v]]

\* for record in response_dict: dataset = dataset.append(row)
RECURSIVE AppendRows(_, _, _)
AppendRows(body, k, dataset) ==
    IF k > Len(body.items) THEN [exc |-> "none", rows |-> dataset]
    ELSE LET r == MakeRow(body, body.items[k])
         IN  IF r.exc # "none" THEN [exc |-> r.exc, rows |-> dataset]
             ELSE AppendRows(body, k + 1, Append(dataset, r.row))

\* json.loads(response.text) and the loop over it, from an empty frame
ParseBody(body) ==
    IF body.json = "invalid" THEN [exc |-> "JSONDecodeError", rows |-> <<>>]
    ELSE IF body.json = "scalar" THEN [exc |-> "TypeError", rows |-> <<>>]
    ELSE AppendRows(body, 1, <<>>)

(***************************************************************************)
(* The CSV file                                                            *)
(***************************************************************************)
Empty == [k |-> "empty", n |-> 0, d |-> 1]
\* to_csv renders a missing value as an empty field
Cell(x) == IF IsNaN(x) THEN Empty ELSE x
to_csv(rows) ==
    Eval([i \in 1..Len(rows) |->
        [unix |-> rows[i].unix, RSI |-> Cell(rows[i].RSI),
         lowerband |-> Cell(rows[i].lowerband),
         upperband |-> Cell(rows[i].upperband), close |-> Cell(rows[i].close)]])

Absent == [state |-> "absent", rows |-> <<>>]
\* a file left by an earlier run
Old == [state |-> "old", rows |-> <<>>]
\* a file opened for writing whose write did not complete
Partial == [state |-> "partial", rows |-> <<>>]
Written(rows) == [state |-> "written", rows |-> to_csv(rows)]

(***************************************************************************)
(* Close-price series for SpecInd                                          *)
(***************************************************************************)
\* rows of a frame holding the closes cs (unix = the row number)
Frame(cs) == Eval([i \in 1..Len(cs) |-> [unix |-> Dec(i), close |-> F(cs[i], 1)]])

\* every series of 1..MaxLen prices from 1..MaxPrice
ShortSeries == UNION {[1..n -> 1..MaxPrice] : n \in 1..MaxLen}

Min(a, b) == IF a < b THEN a ELSE b
Max(a, b) == IF a < b THEN b ELSE a

\* n prices moving by d1 per row up to row j and by d2 per row after it
Ramp(n, j, d1, d2) ==
    [i \in 1..n |-> MaxRows + 1 + d1 * Min(i, j) + d2 * Max(0, i - j)]

LongLens == {RSI_PERIOD + 1, MaxRows}
Breaks == {0, RSI_PERIOD \div 2, RSI_PERIOD, RSI_PERIOD + 1, BB_PERIOD}
LongSeries ==
    {Ramp(n, j, d1, d2) : n \in LongLens, j \in Breaks, d1 \in {-1, 0, 1}, d2 \in {-1, 0, 1}}

Periods == (1..MaxPeriod) \cup {RSI_PERIOD, BB_PERIOD}

(***************************************************************************)
(* State                                                                   *)
(***************************************************************************)
VARIABLES
    args_pairs,   \* args.pairs: None or the list of --pairs groups
    freq,         \* args.freq
    pc,           \* where the run is: main, fetch, compute, write, exit
    pairs,        \* the flattened pair list of download_data
    idx,          \* position (from 1) of the pair being handled
    response,     \* parsed body of the latest response
    dataset,      \* the frame of clean_dataset, as a sequence of rows
    values,       \* what the latest clean_dataset call returned
    files,        \* the working directory: file name -> content
    stdout,       \* the lines printed so far
    requests,     \* the symbols of the GET requests issued so far
    raised,       \* the exception raised while handling the current pair
    exit_status,  \* -1 while running, then the exit status of the process
    ind_frame,    \* SpecInd: the input frame
    ind_period,   \* SpecInd: the rolling window
    ind_rsi,      \* SpecInd: result of set_RSI
    ind_bb        \* SpecInd: result of set_BB

run_vars == <<args_pairs, freq, pc, pairs, idx, response, dataset, values, files,
              stdout, requests, raised, exit_status>>
ind_vars == <<ind_frame, ind_period, ind_rsi, ind_bb>>
vars == <<run_vars, ind_vars>>

PairNames == {<<"B", "T", "C">>, <<"E", "T", "H">>}
FileNames == {p \o extension : p \in PairNames}
FreqArgs == {"min", "hour", "week"}

None == [some |-> FALSE, v |-> <<>>]
Some(x) == [some |-> TRUE, v |-> x]

\* nargs='+': every group has at least one pair; action='append': at least
\* one group when --pairs is given at all
Groups == UNION {[1..n -> PairNames] : n \in 1..MaxPairs}
ArgsPairs ==
    {gs \in UNION {[1..m -> Groups] : m \in 1..MaxPairs} : Len(flatten(gs)) <= MaxPairs}

Line(msg, name, val, rows) == [msg |-> msg, name |-> name, val |-> val, rows |-> rows]
\* log_success(name), log_failure(name)
log_success(name) == Line("is ready", name, NaN, <<>>)
log_failure(name) == Line("was not found", name, NaN, <<>>)

filename == pairs[idx] \o extension

Init ==
    /\ args_pairs \in {None} \cup {Some(gs) : gs \in ArgsPairs}
    /\ freq \in FreqArgs
    /\ pc = "main"
    /\ pairs = <<>>
    /\ idx = 0
    /\ response = NoResponse
    /\ dataset = <<>>
    /\ values = None
    /\ \E c \in {Absent, Old} : files = [f \in FileNames |-> c]
    /\ stdout = <<>>
    /\ requests = <<>>
    /\ raised = "none"
    /\ exit_status = -1
    /\ ind_frame = <<>> /\ ind_period = 0
    /\ ind_rsi = <<>> /\ ind_bb = <<>>

\* an exception nobody catches: traceback, exit status 1
Uncaught(exc) == pc' = "exit" /\ exit_status' = 1 /\ raised' = exc

\* for pair in pairs: the iteration at position k, or the end of the loop and
\* of the script
Loop(k, ps) ==
    /\ idx' = k
    /\ IF k > Len(ps) THEN pc' = "exit" /\ exit_status' = 0
       ELSE pc' = "fetch" /\ exit_status' = exit_status

\* __main__ up to the first iteration of download_data's loop
Main ==
    /\ pc = "main"
    /\ IF ~args_pairs.some
       THEN /\ pc' = "exit" /\ exit_status' = 0
            /\ UNCHANGED <<pairs, idx, raised>>
       ELSE /\ pairs' = flatten(args_pairs.v)
            /\ IF freq \notin DOMAIN time_dict
               THEN Uncaught("KeyError") /\ idx' = idx
               ELSE Loop(1, pairs') /\ raised' = raised
    /\ UNCHANGED <<args_pairs, freq, response, dataset, values, files, stdout, requests>>
    /\ UNCHANGED ind_vars

\* clean_dataset up to the return of fill_with_latest_data: a fresh frame,
\* one GET, json.loads and the row loop.  Nothing here is inside a try.
\* opened: the content of the pair's file when the call returns or raises
FetchStep(opened) ==
    /\ pc = "fetch"
    /\ requests' = Append(requests, remove_extension(filename))
    /\ files' = [files EXCEPT ![filename] = opened]
    /\ \/ \* requests.get raises
          /\ Uncaught("ConnectionError")
          /\ response' = NoResponse
          /\ dataset' = <<>>
       \/ \E body \in Bodies :
            LET r == ParseBody(body)
            IN  /\ response' = body
                /\ dataset' = r.rows
                /\ IF r.exc # "none" THEN Uncaught(r.exc)
                   ELSE pc' = "compute" /\ raised' = "none"
                                        /\ exit_status' = exit_status
    /\ UNCHANGED <<args_pairs, freq, pairs, idx, values, stdout>>
    /\ UNCHANGED ind_vars

fill_with_latest_data_opening == FetchStep(Partial)

fill_with_latest_data == FetchStep(files[filename])

\* the lines set_RSI and set_BB print
Diagnostics(t) ==
    << Line("head", <<>>, NaN, SubSeq(t, 1, Min(Len(t), 21))),
       Line("RSI", <<>>, t[Len(t)].RSI, <<>>),
       Line("Upperband", <<>>, t[Len(t)].upperband, <<>>),
       Line("Lowerband", <<>>, t[Len(t)].lowerband, <<>>) >>

\* dataset = feature_engineering(dataset), outside any try
feature_engineering_step ==
    /\ pc = "compute"
    /\ IF feature_engineering_raises(dataset)
       THEN Uncaught("KeyError") /\ UNCHANGED <<dataset, stdout>>
       ELSE /\ dataset' = feature_engineering(dataset)
            /\ stdout' = stdout \o Diagnostics(dataset')
            /\ pc' = "write"
            /\ UNCHANGED <<raised, exit_status>>
    /\ UNCHANGED <<args_pairs, freq, pairs, idx, response, values, files, requests>>
    /\ UNCHANGED ind_vars

\* RSI_plot(values) starts with len(values): TypeError when values is None
PlotRaises(v) == show_graph /\ ~v.some

\* the try block of clean_dataset and the rest of the loop body.
\* caught: the except clause is there
WriteStep(caught) ==
    /\ pc = "write"
    /\ \E outcome \in {"ok", "PermissionError", "OSError"} :
         IF outcome = "ok"
         THEN /\ files' = [files EXCEPT ![filename] = Written(dataset)]
              /\ stdout' = Append(stdout, log_success(filename))
              /\ values' = Some(dataset)
              /\ Loop(idx + 1, pairs)
              /\ raised' = raised
         ELSE /\ files' = [files EXCEPT ![filename] =
                              IF outcome = "OSError" THEN Partial ELSE @]
              /\ values' = IF caught THEN None ELSE values
              /\ stdout' = IF caught THEN Append(stdout, log_failure(filename))
                           ELSE stdout
              /\ IF ~caught \/ PlotRaises(values')
                 THEN Uncaught(IF caught THEN "TypeError" ELSE outcome) /\ idx' = idx
                 ELSE Loop(idx + 1, pairs) /\ raised' = outcome
    /\ UNCHANGED <<args_pairs, freq, pairs, response, dataset, requests>>
    /\ UNCHANGED ind_vars

clean_dataset_write_uncaught == WriteStep(FALSE)

clean_dataset_write == WriteStep(TRUE)

Next ==
    \/ Main
    \/ fill_with_latest_data
    \/ feature_engineering_step
    \/ clean_dataset_write

Spec == Init /\ [][Next]_vars

(***************************************************************************)
(* SpecInd: the indicator functions on bounded inputs                      *)
(***************************************************************************)
InitInd ==
    /\ args_pairs = None /\ freq = "min" /\ pc = "idle"
    /\ pairs = <<>> /\ idx = 0 /\ response = NoResponse /\ dataset = <<>>
    /\ values = None /\ files = [f \in FileNames |-> Absent]
    /\ stdout = <<>> /\ requests = <<>> /\ raised = "none" /\ exit_status = -1
    /\ ind_frame \in {Frame(cs) : cs \in ShortSeries \cup LongSeries}
    /\ ind_period \in Periods
    /\ ind_rsi = <<>> /\ ind_bb = <<>>

Call_set_RSI ==
    /\ ind_rsi = <<>>
    /\ ind_rsi' = set_RSI(ind_frame, ind_period)
    /\ UNCHANGED <<ind_frame, ind_period, ind_bb>>
    /\ UNCHANGED run_vars

Call_set_BB ==
    /\ ind_bb = <<>>
    /\ ind_bb' = set_BB(ind_frame, ind_period)
    /\ UNCHANGED <<ind_frame, ind_period, ind_rsi>>
    /\ UNCHANGED run_vars

NextInd == Call_set_RSI \/ Call_set_BB

SpecInd == InitInd /\ [][NextInd]_vars

(***************************************************************************)
(* Properties of the driver (Spec)                                         *)
(***************************************************************************)
FetchExceptions == {"ConnectionError", "JSONDecodeError"}
WriteExceptions == {"PermissionError", "OSError"}

\* stdout has the failure line of pair k, under the name the code logs (the
\* file name) or the bare pair name
FailureLogged(k) ==
    \E i \in DOMAIN stdout :
        /\ stdout[i].msg = "was not found"
        /\ stdout[i].name \in {pairs[k], pairs[k] \o extension}

\* C1: when the request for pair k fails (requests.get raises or the body is
\* not JSON), the failure is logged with the pair's name and the run is not
\* terminated by it: the driver goes on with the pairs after k.
C1_FetchFailureLoggedAndSkipped ==
    raised \in FetchExceptions => exit_status # 1 /\ FailureLogged(idx)

\* C2: a JSON error object as the answer is classified as a failure of the
\* pair: no row is built from the object's keys, no exception ends the
\* process, and the pair is reported as failed.
C2_ErrorObjectIsParseFailure ==
    (response.json = "object" /\ pc # "fetch") =>
        /\ exit_status # 1
        /\ dataset = <<>>
        /\ FailureLogged(idx)

\* C3: a failed write of pair k's file is caught and logged for that pair,
\* clean_dataset returns None, and the loop goes on with pair k+1 (or ends
\* the run normally after the last pair); a run that leaves pairs unrequested
\* was never ended by a write failure.
C3_WriteFailureCaught ==
    /\ raised \in WriteExceptions =>
          /\ exit_status # 1
          /\ stdout # <<>>
          /\ stdout[Len(stdout)] = log_failure(pairs[idx - 1] \o extension)
          /\ values = None
          /\ IF idx <= Len(pairs) THEN pc = "fetch"
             ELSE pc = "exit" /\ exit_status = 0
    /\ (pc = "exit" /\ Len(requests) < Len(pairs)) =>
          exit_status = 1 /\ raised \notin WriteExceptions

\* the write of the first pair failed and the second pair was handled to the
\* end of the run
C3_Witness ==
    /\ pc = "exit" /\ exit_status = 0
    /\ Len(pairs) >= 2 /\ Len(requests) = Len(pairs)
    /\ \E i \in DOMAIN stdout : stdout[i] = log_failure(pairs[1] \o extension)
    /\ \E i \in DOMAIN stdout : stdout[i] = log_success(pairs[2] \o extension)

\* C4: with a frequency download_data knows, a finished run has exit status
\* 0 whatever failures occurred for its pairs.
C4_ExitStatusZero ==
    (pc = "exit" /\ freq \in DOMAIN time_dict) => exit_status = 0

\* C9: pairs are handled one at a time in list order, the request of a pair
\* is issued only when the pair before it is finished, and by the end of the
\* run (with a frequency download_data knows) every pair of the list got
\* exactly one request.
C9_OneRequestPerPair ==
    /\ Len(requests) <= Len(pairs)
    /\ \A k \in DOMAIN requests : requests[k] = pairs[k]
    /\ pc \in {"compute", "write"} => Len(requests) = idx
    /\ pc = "fetch" => Len(requests) = idx - 1
    /\ (pc = "exit" /\ freq \in DOMAIN time_dict) => Len(requests) = Len(pairs)

SuccessLines(out) == {i \in DOMAIN out : out[i].msg = "is ready"}

\* C10: a pair's file changes only in the write step, which is reached only
\* with that pair's own response parsed and its indicators computed; a
\* success line is printed only by a write step that wrote the file; and a
\* fetch or computation that fails leaves every file as it was and prints
\* nothing.
C10_WriteOnlyAfterFetchAndCompute ==
    [][ /\ (pc \in {"fetch", "compute"} /\ exit_status' = 1) =>
              files' = files /\ stdout' = stdout
        /\ files' # files =>
              /\ pc = "write"
              /\ Len(requests) = idx
              /\ requests[idx] = pairs[idx]
              /\ ParseBody(response).exc = "none"
              /\ dataset = feature_engineering(ParseBody(response).rows)
              /\ \A f \in FileNames : f # filename => files'[f] = files[f]
        /\ SuccessLines(stdout') # SuccessLines(stdout) =>
              /\ pc = "write"
              /\ files'[filename] = Written(dataset)
              /\ stdout' = Append(stdout, log_success(filename))
      ]_vars

\* a fetch failed for a pair whose file was there, and the file is still there
C10_Witness ==
    /\ pc = "exit" /\ exit_status = 1 /\ raised \in FetchExceptions
    /\ idx >= 1 /\ Len(requests) = idx
    /\ files[filename].state \in {"old", "written"}

(***************************************************************************)
(* Properties of the indicators (SpecInd).  Row i of the model is index    *)
(* i-1 of the frame: index >= period is row > period.                      *)
(***************************************************************************)
\* the `period` diffs ending at row i are all >= 0
WindowNonNegative(t, i, period) ==
    /\ i > period
    /\ \A j \in (i - period + 1)..i : FLe(Zero, t[j].Diff)

\* C5: at every index >= period whose trailing window of diffs is all >= 0
\* (a flat window included), RSI is exactly 100.
C5_RSIHundredWithoutLosses ==
    \A i \in DOMAIN ind_rsi :
        WindowNonNegative(ind_rsi, i, ind_period) => ind_rsi[i].RSI = Hundred

\* C6: RSI is missing at every index < period and a number at every index
\* >= period.
C6_RSIDefinedFromPeriod ==
    \A i \in DOMAIN ind_rsi : IsNaN(ind_rsi[i].RSI) <=> i <= ind_period

\* C7: every RSI at an index >= period lies in [0, 100].
C7_RSIRange ==
    \A i \in DOMAIN ind_rsi :
        i > ind_period => FLe(Zero, ind_rsi[i].RSI) /\ FLe(ind_rsi[i].RSI, Hundred)

\* C8: wherever the Bollinger values are defined (index >= period-1, that is
\* row >= period), lowerband <= middle <= upperband; they are defined at
\* every such row for a window of at least two rows.
C8_BandsOrdered ==
    \A i \in DOMAIN ind_bb :
        LET r == ind_bb[i]
            defined == ~IsNaN(r.MA20) /\ ~IsNaN(r.upperband) /\ ~IsNaN(r.lowerband)
        IN  /\ (i >= ind_period /\ ind_period > 1) => defined
            /\ (~IsNaN(r.upperband) \/ ~IsNaN(r.lowerband)) => defined
            /\ defined => FLe(r.lowerband, r.MA20) /\ FLe(r.MA20, r.upperband)

\* the program's window of 21 on a series that moves: the bands are apart
C8_Witness ==
    /\ ind_period = BB_PERIOD
    /\ Len(ind_bb) >= BB_PERIOD
    /\ FLt(ind_bb[Len(ind_bb)].lowerband, ind_bb[Len(ind_bb)].MA20)
    /\ FLt(ind_bb[Len(ind_bb)].MA20, ind_bb[Len(ind_bb)].upperband)

====
